---- MODULE Spec2Model ----
(***************************************************************************)
(* photutils/datasets/make.py: make_gaussian_image, make_gaussian_sources  *)
(* and make_random_gaussians, with the process-wide generator np.random    *)
(* as the only state that outlives a call.                                 *)
(*                                                                         *)
(* Numbers.  float64 pixel values are fixed-point integers in units of     *)
(* 1/Scale.  Angles are integers in units of pi/4, so that cos^2, sin^2    *)
(* and sin(2 theta) are exact halves.  A generator is a stream identified  *)
(* by a key (what it was seeded with) and a position (how many variates    *)
(* it has handed out); the variate at a position of a stream is fixed.     *)
(***************************************************************************)
EXTENDS Integers, Sequences, FiniteSets, TLC

VARIABLES np_random, last

vars == <<np_random, last>>

(* ------------------------------ bounds -------------------------------- *)

MaxSources == 2

MaxNSources == 2

MaxDraws == 12

(* ----------------------------- numerics ------------------------------- *)

Scale == 1000

RandMax == 8

TwoPi == 8

None == <<>>

Some(v) == <<v>>

SeedNone == [kind |-> "None", v |-> <<>>]

SeedInt(n) == [kind |-> "int", v |-> <<n>>]

SeedList(s) == [kind |-> "list", v |-> s]

SeedNdarray(s) == [kind |-> "ndarray", v |-> s]

(* `if seed:` raises ValueError for an ndarray of more than one element. *)
TruthRaises(seed) == seed.kind = "ndarray" /\ Len(seed.v) > 1

Truthy_IsNotNone(seed) == seed.kind # "None"

(* `if seed:` -- Python truth value of the seed argument. *)
Truthy(seed) ==
    CASE seed.kind = "None" -> FALSE
      [] seed.kind = "int" -> seed.v[1] # 0
      [] seed.kind = "list" -> Len(seed.v) > 0
      [] seed.kind = "ndarray" -> Len(seed.v) = 1 /\ seed.v[1] # 0

RECURSIVE SeedSum(_, _)
SeedSum(s, i) == IF i > Len(s) THEN 0 ELSE (i + 1) * s[i] + 3 + SeedSum(s, i + 1)

(* The stream a seed selects: an integer seeds directly, a sequence is *)
(* mixed element by element.                                            *)
SeedKey(seed) == IF seed.kind = "int" THEN seed.v[1] ELSE 40 + SeedSum(seed.v, 1)

(* np.random.RandomState(seed): a new generator at the start of the *)
(* stream of the seed.                                               *)
RandomState(seed) == [gen |-> "RandomState", key |-> SeedKey(seed), pos |-> 0]

(* The raw variate in 0..RandMax-1 at position pos of stream key. *)
Raw(key, pos) ==
    ((key * key * 7 + key * 3 + pos * pos * 5 + pos * 11 + key * pos * 13 + 1) % 31) % RandMax

Draw(g, i) == [gen |-> g.gen, key |-> g.key, pos |-> g.pos + i]

Draws(g, n) == {Draw(g, i) : i \in 0..(n - 1)}

Advance(g, n) == [g EXCEPT !.pos = @ + n]

(* prng.uniform(low, high, n): n values in [low, high). *)
uniform(g, low, high, n) ==
    [i \in 1..n |-> low + (Raw(g.key, g.pos + i - 1) * (high - low)) \div RandMax]

(* ------------------------------ arrays -------------------------------- *)

Grid_Transposed(shape) == (0..(shape[2] - 1)) \X (0..(shape[1] - 1))

(* The index set of an array of the given shape: (row, column). *)
Grid(shape) == (0..(shape[1] - 1)) \X (0..(shape[2] - 1))

np_zeros(shape) == [p \in Grid(shape) |-> 0]

np_indices_Swapped(shape) ==
    [y |-> [p \in Grid(shape) |-> p[2]], x |-> [p \in Grid(shape) |-> p[1]]]

(* y, x = np.indices(shape): y[i,j] = i, x[i,j] = j. *)
np_indices(shape) ==
    [y |-> [p \in Grid(shape) |-> p[1]], x |-> [p \in Grid(shape) |-> p[2]]]

Add(a, b) == [p \in DOMAIN a |-> a[p] + b[p]]

(* prng.normal(loc=0.0, scale, size=shape): one variate per pixel, in *)
(* row-major order.                                                    *)
normal(g, scale, shape) ==
    [p \in Grid(shape) |->
        scale * (2 * Raw(g.key, g.pos + p[1] * shape[2] + p[2]) + 1 - RandMax)
              * (Scale \div RandMax)]

(* --------------------------- Gaussian models -------------------------- *)

ExpInt(k) ==
    CASE k = 0 -> 1000 [] k = 1 -> 368 [] k = 2 -> 135 [] k = 3 -> 50
      [] k = 4 -> 18 [] k = 5 -> 7 [] k = 6 -> 2 [] k = 7 -> 1 [] OTHER -> 0

(* Scale * exp(-n/d), n >= 0, d > 0: a table for the integer part of the *)
(* exponent and a Taylor polynomial (Horner form) for its fraction.       *)
ExpNeg(n, d) ==
    LET k == n \div d
        t == ((n % d) * Scale) \div d
        h4 == Scale - t \div 4
        h3 == Scale - (t * h4) \div (3 * Scale)
        h2 == Scale - (t * h3) \div (2 * Scale)
        frac == Scale - (t * h2) \div Scale
    IN (ExpInt(k) * frac) \div Scale

Cos2x2(theta) == CASE theta % 4 = 0 -> 2 [] theta % 4 = 2 -> 0 [] OTHER -> 1

Sin2x2(theta) == 2 - Cos2x2(theta)

Sin2Theta(theta) == CASE theta % 4 = 1 -> 1 [] theta % 4 = 3 -> -1 [] OTHER -> 0

(* astropy Gaussian2D(amplitude, x_mean, y_mean, x_stddev, y_stddev,      *)
(* theta) evaluated at one point:                                         *)
(*   a = (cos^2/xstd^2 + sin^2/ystd^2)/2, b = (sin2t/xstd^2 - sin2t/ystd^2)/2, *)
(*   c = (sin^2/xstd^2 + cos^2/ystd^2)/2,                                 *)
(*   amplitude * exp(-(a dx^2 + b dx dy + c dy^2)).                       *)
Gaussian2D(source, x, y) ==
    LET dx == x - source.x_mean
        dy == y - source.y_mean
        xstd2 == source.x_stddev * source.x_stddev
        ystd2 == source.y_stddev * source.y_stddev
        c2 == Cos2x2(source.theta)
        s2 == Sin2x2(source.theta)
        n == (c2 * ystd2 + s2 * xstd2) * dx * dx
             + 2 * Sin2Theta(source.theta) * (ystd2 - xstd2) * dx * dy
             + (s2 * ystd2 + c2 * xstd2) * dy * dy
    IN source.amplitude * ExpNeg(n, 4 * xstd2 * ystd2)

(* GaussianPSF(amplitude, x_0, y_0, sigma) evaluated at one point:  *)
(* amplitude * exp(-((x-x0)^2 + (y-y0)^2) / (2 sigma^2)).           *)
GaussianPSF(source, x, y) ==
    LET dx == x - source.x_0
        dy == y - source.y_0
    IN source.amplitude * ExpNeg(dx * dx + dy * dy, 2 * source.sigma * source.sigma)

(* ------------------------------ inputs -------------------------------- *)

Shapes == {<<2, 3>>, <<3, 2>>}

Sources ==
    <<[amplitude |-> 3, x_mean |-> 1, y_mean |-> 0, x_stddev |-> 1, y_stddev |-> 2, theta |-> 1],
      [amplitude |-> 2, x_mean |-> 2, y_mean |-> 1, x_stddev |-> 2, y_stddev |-> 1, theta |-> 0]>>

PSFSources ==
    <<[amplitude |-> 3, x_0 |-> 1, y_0 |-> 0, sigma |-> 1],
      [amplitude |-> 2, x_0 |-> 2, y_0 |-> 1, sigma |-> 2]>>

(* The tables of up to MaxSources rows that alternate between the two *)
(* rows, starting with either.                                         *)
TablesOf(rows) ==
    {[i \in 1..n |-> rows[1 + ((i + k) % 2)]] : n \in 0..MaxSources, k \in 0..1}

Seeds ==
    {SeedNone, SeedInt(0), SeedInt(1), SeedList(<<>>), SeedList(<<1, 2>>),
     SeedNdarray(<<1, 2>>)}

NoiseStddevs == {None, Some(2)}

(* amplitude_range, xstddev_range, ystddev_range of a call. *)
Ranges ==
    {[amplitude_range |-> <<1, 3>>, xstddev_range |-> <<2, 4>>, ystddev_range |-> <<1, 2>>],
     [amplitude_range |-> <<4, 9>>, xstddev_range |-> <<1, 3>>, ystddev_range |-> <<3, 4>>]}

(* The streams the process-wide generator can be seeded with at start-up. *)
GlobalKeys == {3, 10}

(* ----------------------------- functions ------------------------------ *)

RECURSIVE PSFLoop(_, _, _, _, _)
(* lines 71-74: for source in table: image += GaussianPSF(...)(x, y) *)
PSFLoop(image, table, i, x, y) ==
    IF i > Len(table) THEN image
    ELSE PSFLoop(Add(image, [p \in DOMAIN x |-> GaussianPSF(table[i], x[p], y[p])]),
                 table, i + 1, x, y)

make_gaussian_image(shape, table) ==
    LET ix == np_indices(shape)
    IN [ok |-> TRUE,
        image |-> PSFLoop(np_zeros(shape), table, 1, ix.x, ix.y),
        noise_used |-> {},
        image_shape |-> shape,
        source_table |-> table]

RECURSIVE SourcesLoop_Overwrite(_, _, _, _, _)
SourcesLoop_Overwrite(image, table, i, x, y) ==
    IF i > Len(table) THEN image
    ELSE SourcesLoop_Overwrite([p \in DOMAIN x |-> Gaussian2D(table[i], x[p], y[p])],
                               table, i + 1, x, y)

RECURSIVE SourcesLoop(_, _, _, _, _)
(* lines 148-153: for source in source_table: image += Gaussian2D(...)(x, y) *)
SourcesLoop(image, table, i, x, y) ==
    IF i > Len(table) THEN image
    ELSE SourcesLoop(Add(image, [p \in DOMAIN x |-> Gaussian2D(table[i], x[p], y[p])]),
                     table, i + 1, x, y)

select_prng_SeedsGlobal(seed, g) ==
    IF Truthy(seed) THEN [gen |-> "np.random", key |-> SeedKey(seed), pos |-> 0] ELSE g

(* lines 156-159 and 239-242: if seed: prng = np.random.RandomState(seed) *)
(* else: prng = np.random.  g is np.random, the process-wide generator.   *)
select_prng(seed, g) == IF Truthy(seed) THEN RandomState(seed) ELSE g

(* np.random after prng, selected from g, has handed out n variates: *)
(* prng is either np.random itself or an object of the call.         *)
AfterDraws(prng, g, n) == IF prng.gen = "np.random" THEN Advance(prng, n) ELSE g

make_gaussian_sources_AlwaysNoise(image_shape, source_table, noise_stddev, seed, g) ==
    LET ix == np_indices(image_shape)
        image == SourcesLoop(np_zeros(image_shape), source_table, 1, ix.x, ix.y)
        n == image_shape[1] * image_shape[2]
        scale == IF noise_stddev = None THEN 0 ELSE noise_stddev[1]
    IN IF TruthRaises(seed)
       THEN [ok |-> FALSE, image |-> image, np_random |-> g, noise_used |-> {},
             image_shape |-> image_shape, source_table |-> source_table]
       ELSE LET prng == select_prng(seed, g)
            IN [ok |-> TRUE,
                image |-> Add(image, normal(prng, scale, image_shape)),
                np_random |-> AfterDraws(prng, g, n),
                noise_used |-> Draws(prng, n),
                image_shape |-> image_shape,
                source_table |-> source_table]

(* The result carries the returned image, np.random as the call leaves  *)
(* it, the variates the noise was made of, and the caller's arguments   *)
(* as the call leaves them; ok is FALSE when the call raises.           *)
make_gaussian_sources(image_shape, source_table, noise_stddev, seed, g) ==
    LET ix == np_indices(image_shape)
        image == SourcesLoop(np_zeros(image_shape), source_table, 1, ix.x, ix.y)
        n == image_shape[1] * image_shape[2]
    IN IF noise_stddev = None
       THEN [ok |-> TRUE, image |-> image, np_random |-> g, noise_used |-> {},
             image_shape |-> image_shape, source_table |-> source_table]
       ELSE IF TruthRaises(seed)
       THEN [ok |-> FALSE, image |-> image, np_random |-> g, noise_used |-> {},
             image_shape |-> image_shape, source_table |-> source_table]
       ELSE LET prng == select_prng(seed, g)
            IN [ok |-> TRUE,
                image |-> Add(image, normal(prng, noise_stddev[1], image_shape)),
                np_random |-> AfterDraws(prng, g, n),
                noise_used |-> Draws(prng, n),
                image_shape |-> image_shape,
                source_table |-> source_table]

random_sources_ShapeSwapped(prng, image_shape, n, amplitude_range, xstddev_range, ystddev_range) ==
    LET amplitude == uniform(prng, amplitude_range[1], amplitude_range[2], n)
        x_mean == uniform(Advance(prng, n), 0, image_shape[1], n)
        y_mean == uniform(Advance(prng, 2 * n), 0, image_shape[2], n)
        x_stddev == uniform(Advance(prng, 3 * n), xstddev_range[1], xstddev_range[2], n)
        y_stddev == uniform(Advance(prng, 4 * n), ystddev_range[1], ystddev_range[2], n)
        theta == uniform(Advance(prng, 5 * n), 0, TwoPi, n)
    IN [i \in 1..n |->
           [amplitude |-> amplitude[i], x_mean |-> x_mean[i], y_mean |-> y_mean[i],
            x_stddev |-> x_stddev[i], y_stddev |-> y_stddev[i], theta |-> theta[i]]]

(* lines 243-252: the six columns of the sources table, n uniform draws *)
(* each, in this order.  image_shape[0] is the height and               *)
(* image_shape[1] the width (Python indexes from 0, tuples here from 1). *)
random_sources(prng, image_shape, n, amplitude_range, xstddev_range, ystddev_range) ==
    LET amplitude == uniform(prng, amplitude_range[1], amplitude_range[2], n)
        x_mean == uniform(Advance(prng, n), 0, image_shape[2], n)
        y_mean == uniform(Advance(prng, 2 * n), 0, image_shape[1], n)
        x_stddev == uniform(Advance(prng, 3 * n), xstddev_range[1], xstddev_range[2], n)
        y_stddev == uniform(Advance(prng, 4 * n), ystddev_range[1], ystddev_range[2], n)
        theta == uniform(Advance(prng, 5 * n), 0, TwoPi, n)
    IN [i \in 1..n |->
           [amplitude |-> amplitude[i], x_mean |-> x_mean[i], y_mean |-> y_mean[i],
            x_stddev |-> x_stddev[i], y_stddev |-> y_stddev[i], theta |-> theta[i]]]

NoSources == [i \in 1..0 |-> 0]

make_random_gaussians_SeedNotForwarded(image_shape, n_sources, amplitude_range, xstddev_range, ystddev_range, noise_stddev, seed, g) ==
    IF TruthRaises(seed)
    THEN [ok |-> FALSE, image |-> np_zeros(image_shape), np_random |-> g,
          noise_used |-> {}, params_used |-> {}, sources |-> NoSources,
          image_shape |-> image_shape, source_table |-> NoSources]
    ELSE
    LET prng == select_prng(seed, g)
        sources == random_sources(prng, image_shape, n_sources, amplitude_range,
                                  xstddev_range, ystddev_range)
    IN [params_used |-> Draws(prng, 6 * n_sources), sources |-> sources]
       @@ make_gaussian_sources(image_shape, sources, noise_stddev, SeedNone,
                                AfterDraws(prng, g, 6 * n_sources))

(* With a truthy seed prng is an object of the call and np.random is    *)
(* left alone; otherwise prng is np.random itself and the six uniform   *)
(* calls advance it before make_gaussian_sources is called with the     *)
(* same seed argument.  The result is that of make_gaussian_sources     *)
(* together with the sources drawn and the variates they were made of.  *)
make_random_gaussians(image_shape, n_sources, amplitude_range, xstddev_range, ystddev_range, noise_stddev, seed, g) ==
    IF TruthRaises(seed)
    THEN [ok |-> FALSE, image |-> np_zeros(image_shape), np_random |-> g,
          noise_used |-> {}, params_used |-> {}, sources |-> NoSources,
          image_shape |-> image_shape, source_table |-> NoSources]
    ELSE
    LET prng == select_prng(seed, g)
        sources == random_sources(prng, image_shape, n_sources, amplitude_range,
                                  xstddev_range, ystddev_range)
    IN [params_used |-> Draws(prng, 6 * n_sources), sources |-> sources]
       @@ make_gaussian_sources(image_shape, sources, noise_stddev, seed,
                                AfterDraws(prng, g, 6 * n_sources))

(* ------------------------------ actions ------------------------------- *)

NoArgs == [image_shape |-> <<1, 1>>]

Init ==
    /\ np_random \in [gen : {"np.random"}, key : GlobalKeys, pos : {0}]
    /\ last = [fn |-> "none", args |-> NoArgs, out |-> [ok |-> TRUE]]

MakeGaussianImage ==
    \E shape \in Shapes, table \in TablesOf(PSFSources) :
        /\ last' = [fn |-> "make_gaussian_image",
                    args |-> [image_shape |-> shape, source_table |-> table],
                    out |-> make_gaussian_image(shape, table)]
        /\ UNCHANGED np_random

MakeGaussianSources ==
    \E image_shape \in Shapes, source_table \in TablesOf(Sources),
       noise_stddev \in NoiseStddevs, seed \in Seeds :
        /\ last' = [fn |-> "make_gaussian_sources",
                    args |-> [image_shape |-> image_shape,
                              source_table |-> source_table,
                              noise_stddev |-> noise_stddev, seed |-> seed],
                    out |-> make_gaussian_sources(image_shape, source_table,
                                                  noise_stddev, seed, np_random)]
        /\ np_random' = last'.out.np_random
        /\ np_random'.pos <= MaxDraws

MakeRandomGaussians ==
    \E image_shape \in Shapes, n_sources \in 0..MaxNSources, ranges \in Ranges,
       noise_stddev \in NoiseStddevs, seed \in Seeds :
        /\ last' = [fn |-> "make_random_gaussians",
                    args |-> [image_shape |-> image_shape, n_sources |-> n_sources,
                              amplitude_range |-> ranges.amplitude_range,
                              xstddev_range |-> ranges.xstddev_range,
                              ystddev_range |-> ranges.ystddev_range,
                              noise_stddev |-> noise_stddev, seed |-> seed],
                    out |-> make_random_gaussians(image_shape, n_sources,
                                                  ranges.amplitude_range,
                                                  ranges.xstddev_range,
                                                  ranges.ystddev_range,
                                                  noise_stddev, seed, np_random)]
        /\ np_random' = last'.out.np_random
        /\ np_random'.pos <= MaxDraws

Next == MakeGaussianImage \/ MakeGaussianSources \/ MakeRandomGaussians

Spec == Init /\ [][Next]_vars

(* ----------------------------- properties ----------------------------- *)

MGI == "make_gaussian_image"

MGS == "make_gaussian_sources"

MRG == "make_random_gaussians"

(* Every state np.random can be in when a call starts. *)
Generators == [gen : {"np.random"}, key : GlobalKeys, pos : 0..MaxDraws]

Pixels(shape) == {<<r, c>> : r \in 0..(shape[1] - 1), c \in 0..(shape[2] - 1)}

NPixels(shape) == shape[1] * shape[2]

Sub(a, b) == [p \in DOMAIN a |-> a[p] - b[p]]

(* The seeds that make `if seed:` false, written out. *)
IsFalsySeed(seed) ==
    \/ seed.kind = "None"
    \/ seed.kind = "int" /\ seed.v = <<0>>
    \/ seed.kind = "list" /\ seed.v = <<>>
    \/ seed.kind = "ndarray" /\ seed.v \in {<<>>, <<0>>}

IsRaisingSeed(seed) == seed.kind = "ndarray" /\ Len(seed.v) >= 2

IsSeedingSeed(seed) == ~IsFalsySeed(seed) /\ ~IsRaisingSeed(seed)

(* The image of the sources alone of a call of make_gaussian_sources or *)
(* make_random_gaussians, and the noise the call added to it.           *)
SourcesImageOf(call) ==
    make_gaussian_sources(call.args.image_shape,
                          IF call.fn = MRG THEN call.out.sources
                          ELSE call.args.source_table,
                          None, SeedNone, np_random).image

NoiseOf(call) == Sub(call.out.image, SourcesImageOf(call))

SameReturn(r1, r2) == r1.ok = r2.ok /\ (r1.ok => r1.image = r2.image)

(* C1: two calls of make_gaussian_sources, or of make_random_gaussians,  *)
(* with identical arguments and a seed that is neither None nor zero     *)
(* return identical images.  Stated of two calls in a row.               *)
C1_SeededCallsRepeat ==
    [][(/\ last'.fn \in {MGS, MRG}
        /\ last'.fn = last.fn
        /\ last'.args = last.args
        /\ last'.args.seed # SeedNone
        /\ last'.args.seed # SeedInt(0))
       => SameReturn(last'.out, last.out)]_vars

(* C2: for every seed other than None, an integer or a sequence of       *)
(* integers of any length, calls with the same image_shape, noise_stddev *)
(* and seed complete without error and add the identical noise image     *)
(* (make_gaussian_sources), and calls with the same arguments generate   *)
(* the identical sources and noise image (make_random_gaussians).        *)
(* Stated of two calls in a row.                                         *)
C2_EverySeedRepeats ==
    [][(/\ last'.fn \in {MGS, MRG}
        /\ last'.fn = last.fn
        /\ last'.args.seed = last.args.seed
        /\ last'.args.seed # SeedNone
        /\ last'.args.image_shape = last.args.image_shape
        /\ last'.args.noise_stddev = last.args.noise_stddev
        /\ (last'.fn = MRG => last'.args = last.args))
       => /\ last.out.ok
          /\ last'.out.ok
          /\ NoiseOf(last') = NoiseOf(last)
          /\ (last'.fn = MRG => last'.out.sources = last.out.sources)]_vars

RECURSIVE SumOfModels(_, _, _, _)
SumOfModels(table, i, x, y) ==
    IF i > Len(table) THEN 0
    ELSE Gaussian2D(table[i], x, y) + SumOfModels(table, i + 1, x, y)

(* C4: with noise_stddev None, make_gaussian_sources returns the         *)
(* pixel-wise sum of the source models for every seed, draws nothing and *)
(* leaves np.random where it was.                                        *)
C4_NoNoise ==
    [][(last'.fn = MGS /\ last'.args.noise_stddev = None)
       => /\ last'.out.ok
          /\ \A p \in Pixels(last'.args.image_shape) :
                 last'.out.image[p] = SumOfModels(last'.args.source_table, 1, p[2], p[1])
          /\ last'.out.noise_used = {}
          /\ np_random' = np_random]_vars

C4_Witness ==
    /\ last.fn = MGS
    /\ last.args.noise_stddev = None
    /\ last.args.seed = SeedInt(1)
    /\ Len(last.args.source_table) = 2
    /\ \E p \in Pixels(last.args.image_shape) : last.out.image[p] > 0

ArgumentsKept(call) ==
    /\ call.out.image_shape = call.args.image_shape
    /\ (call.fn \in {MGI, MGS} => call.out.source_table = call.args.source_table)

SharedDraws(call) ==
    IF call.fn = MGI \/ ~IsFalsySeed(call.args.seed) THEN 0
    ELSE (IF call.fn = MRG THEN 6 * call.args.n_sources ELSE 0)
         + (IF call.args.noise_stddev # None THEN NPixels(call.args.image_shape) ELSE 0)

C6_Shape ==
    (last.fn \in {MGI, MGS} /\ last.out.ok)
    => /\ DOMAIN last.out.image =
              (0..(last.args.image_shape[1] - 1)) \X (0..(last.args.image_shape[2] - 1))
       /\ (/\ last.args.source_table = <<>>
           /\ (last.fn = MGS => last.args.noise_stddev = None))
          => \A p \in DOMAIN last.out.image : last.out.image[p] = 0

C6_Witness ==
    /\ last.fn = MGS
    /\ last.args.image_shape = <<2, 3>>
    /\ last.args.noise_stddev # None
    /\ Len(last.args.source_table) = 2
    /\ last.out.ok

RowOrders(n) == {f \in [1..n -> 1..n] : \A i, j \in 1..n : f[i] = f[j] => i = j}

(* The image the function of the last call returns for another table. *)
ImageOfTable(table) ==
    IF last.fn = MGI THEN make_gaussian_image(last.args.image_shape, table).image
    ELSE make_gaussian_sources(last.args.image_shape, table, None,
                               last.args.seed, np_random).image

RECURSIVE SumOfRowImages(_, _)
SumOfRowImages(table, i) ==
    IF i = Len(table) THEN ImageOfTable(<<table[i]>>)
    ELSE Add(ImageOfTable(<<table[i]>>), SumOfRowImages(table, i + 1))

(* C7: without noise, the image of a table of two or more rows is the    *)
(* element-wise sum of the images of its rows taken alone, and is the    *)
(* same for every order of the rows.                                     *)
C7_Additive ==
    (/\ last.fn \in {MGI, MGS}
     /\ (last.fn = MGS => last.args.noise_stddev = None)
     /\ Len(last.args.source_table) >= 2)
    => LET table == last.args.source_table
       IN /\ last.out.image = SumOfRowImages(table, 1)
          /\ \A f \in RowOrders(Len(table)) :
                 last.out.image = ImageOfTable([i \in 1..Len(table) |-> table[f[i]]])

C7_Witness ==
    /\ last.fn = MGS
    /\ last.args.noise_stddev = None
    /\ Len(last.args.source_table) = 2
    /\ last.args.source_table[1] # last.args.source_table[2]
    /\ last.out.image # ImageOfTable(<<last.args.source_table[1]>>)
    /\ last.out.image # ImageOfTable(<<last.args.source_table[2]>>)

(* C8: make_random_gaussians draws exactly n_sources rows, each with     *)
(* amplitude in amplitude_range, x_stddev in xstddev_range, y_stddev in  *)
(* ystddev_range, 0 <= x_mean < width, 0 <= y_mean < height and          *)
(* 0 <= theta < 2 pi.                                                    *)
C8_Ranges ==
    (last.fn = MRG /\ last.out.ok)
    => LET a == last.args
           t == last.out.sources
       IN /\ DOMAIN t = 1..a.n_sources
          /\ \A i \in DOMAIN t :
                 /\ a.amplitude_range[1] <= t[i].amplitude
                 /\ t[i].amplitude <= a.amplitude_range[2]
                 /\ a.xstddev_range[1] <= t[i].x_stddev
                 /\ t[i].x_stddev <= a.xstddev_range[2]
                 /\ a.ystddev_range[1] <= t[i].y_stddev
                 /\ t[i].y_stddev <= a.ystddev_range[2]
                 /\ 0 <= t[i].x_mean /\ t[i].x_mean < a.image_shape[2]
                 /\ 0 <= t[i].y_mean /\ t[i].y_mean < a.image_shape[1]
                 /\ 0 <= t[i].theta /\ t[i].theta < TwoPi

C8_Witness ==
    /\ last.fn = MRG
    /\ last.out.ok
    /\ last.args.n_sources = 2
    /\ \E i \in 1..2 : last.out.sources[i].x_mean >= last.args.image_shape[1]
    /\ last.out.sources[1] # last.out.sources[2]

(* C9: one source of positive amplitude centred on a pixel of the grid,  *)
(* no noise: the maximum of the image is the amplitude, at row y_mean    *)
(* and column x_mean.                                                    *)
C9_Peak ==
    (/\ last.fn = MGS
     /\ last.args.noise_stddev = None
     /\ Len(last.args.source_table) = 1
     /\ last.args.source_table[1].amplitude > 0
     /\ last.args.source_table[1].y_mean \in 0..(last.args.image_shape[1] - 1)
     /\ last.args.source_table[1].x_mean \in 0..(last.args.image_shape[2] - 1))
    => LET src == last.args.source_table[1]
       IN /\ last.out.image[<<src.y_mean, src.x_mean>>] = src.amplitude * Scale
          /\ \A p \in DOMAIN last.out.image : last.out.image[p] <= src.amplitude * Scale

C9_Witness ==
    /\ last.fn = MGS
    /\ last.args.noise_stddev = None
    /\ last.args.image_shape = <<2, 3>>
    /\ Len(last.args.source_table) = 1
    /\ last.args.source_table[1].x_mean = 1
    /\ last.args.source_table[1].y_mean = 0
    /\ last.out.image[<<1, 0>>] < last.out.image[<<0, 1>>]

====
